---- MODULE Spec2Model ----
(***************************************************************************)
(* The agent actions router (api/server/routes/agents/actions.js): the     *)
(* Action store, the agents' `actions` / `tools` reference lists and the   *)
(* six route handlers that keep them in sync.                              *)
(*                                                                         *)
(* A string is a sequence of one-character strings, so that the handlers'  *)
(* String.includes / String.split / template concatenation are computed    *)
(* on characters: "a.c" is <<"a", ".", "c">>.                              *)
(***************************************************************************)
EXTENDS Integers, Sequences, FiniteSets, TLC

(***************************************************************************)
(* Bounds of the model.                                                    *)
(***************************************************************************)
\* number of actions nanoid() hands out ids for in one behaviour
MaxActions == 2
\* longest `tools` list a handler is let to write
MaxTools == 4

(***************************************************************************)
(* Strings.                                                                *)
(***************************************************************************)
\* String.prototype.includes
Includes(s, p) ==
    \E i \in 0..(Len(s) - Len(p)) : SubSeq(s, i + 1, i + Len(p)) = p

\* index (1-based) of the first occurrence of p in s, 0 when there is none
IndexOf(s, p) ==
    IF Includes(s, p)
    THEN CHOOSE i \in 1..(Len(s) - Len(p) + 1) :
            /\ SubSeq(s, i, i + Len(p) - 1) = p
            /\ \A j \in 1..(i - 1) : SubSeq(s, j, j + Len(p) - 1) # p
    ELSE 0

\* SplitFirst that cuts one character late and keeps the separator's first
SplitFirstLate(s, sep) ==
    IF IndexOf(s, sep) = 0 THEN s ELSE SubSeq(s, 1, IndexOf(s, sep))

\* s.split(sep)[0]
SplitFirst(s, sep) ==
    IF IndexOf(s, sep) = 0 THEN s ELSE SubSeq(s, 1, IndexOf(s, sep) - 1)

LowerChar(c) ==
    CASE c = "K" -> "k"
      [] c = "F" -> "f"
      [] c = "G" -> "g"
      [] OTHER -> c

\* String.prototype.toLowerCase, the folding of the regex option 'i'
Lower(s) == [i \in 1..Len(s) |-> LowerChar(s[i])]

(***************************************************************************)
(* Imported constants and collaborators.                                   *)
(***************************************************************************)
actionDelimiter == <<"_">>

ADMIN == "ADMIN"
USER == "USER"

\* req.user of the callers: the author of the agent, another user, an admin
Identities ==
    { [id |-> "u1", role |-> USER],
      [id |-> "u2", role |-> USER],
      [id |-> "root", role |-> ADMIN] }

isAdmin(user) == user.role = ADMIN

\* the ids nanoid() hands out, in order: distinct, of one length
nanoid(n) == <<"k", ToString(n)>>

ActionIds == {nanoid(n) : n \in 1..MaxActions}

\* metadata.domain values a request carries
DomainDotted == <<"a", ".", "c">>
DomainPlain == <<"c">>
DomainDenied == <<"n">>
DomainBlank == <<"q">>
\* a domain in which the delimiter occurs
DomainDelimited == <<"c", "_", "d">>
Domains == {DomainDotted, DomainPlain, DomainDenied, DomainBlank, DomainDelimited}

\* the allow-list of the domain validator
isActionDomainAllowed(domain) ==
    domain \in {DomainDotted, DomainPlain, DomainBlank, DomainDelimited}

\* the two domain parsers a behaviour may run with: one that returns the
\* domain as stored, one that rewrites its dots
ParserModes == {"verbatim", "rewrite"}

RewriteDots(domain) ==
    [i \in 1..Len(domain) |-> IF domain[i] = "." THEN "-" ELSE domain[i]]

\* domainParser(req, domain, true): empty when it rejects the domain
domainParser(mode, domain) ==
    IF domain = <<>> \/ domain = DomainBlank THEN <<>>
    ELSE IF mode = "rewrite" THEN RewriteDots(domain)
    ELSE domain

\* the values of JavaScript that are no strings: a sequence holding the name
\* of the literal, which no string (a sequence of characters) equals
JSNull == <<"null">>
JSFalse == <<"false">>

\* ToBoolean, as `if (value)` applies it
Truthy(value) == value \notin {<<>>, JSNull, JSFalse}

sensitiveFields == <<"api_key", "oauth_client_id", "oauth_client_secret">>

\* removeNullishValues(_metadata, true): the entries that are null taken out
removeNullishValues(obj) ==
    [key \in {k \in DOMAIN obj : obj[k] # JSNull} |-> obj[key]]

\* the ciphertext of a string
Encrypted(value) == <<"#">> \o value

\* encryptMetadata(metadata): the secrets that are set, encrypted
encryptMetadata(metadata) ==
    [key \in DOMAIN metadata |->
        IF (\E i \in 1..Len(sensitiveFields) : sensitiveFields[i] = key)
           /\ Truthy(metadata[key])
        THEN Encrypted(metadata[key])
        ELSE metadata[key]]

\* req.body.functions, as the list of tool.function.name
FunctionLists == { << <<"f">> >>, << <<"f">>, <<"g">> >> }

\* req.body of POST / and PUT /:action_id, as [functions, metadata]: the
\* bodies the handlers accept, and one body for each of their three rejections
Bodies ==
    [functions : FunctionLists,
     metadata : {[domain |-> DomainDotted], [domain |-> DomainPlain]}]
    \cup { [functions |-> <<>>, metadata |-> [domain |-> DomainPlain]],
           [functions |-> << <<"f">> >>, metadata |-> [domain |-> DomainDenied]],
           [functions |-> << <<"f">> >>, metadata |-> [domain |-> DomainBlank]] }

\* bodies whose metadata carries credentials: an API key, an API key that is
\* `false`, the OAuth client id and secret, an API key that is null
SecretBodies ==
    { [functions |-> << <<"f">> >>,
       metadata |-> [domain |-> DomainPlain, api_key |-> <<"s">>]],
      [functions |-> << <<"f">> >>,
       metadata |-> [domain |-> DomainPlain, api_key |-> JSFalse]],
      [functions |-> << <<"f">> >>,
       metadata |-> [domain |-> DomainPlain, oauth_client_id |-> <<"i">>,
                     oauth_client_secret |-> <<"s">>]],
      [functions |-> << <<"f">> >>,
       metadata |-> [domain |-> DomainPlain, api_key |-> JSNull]] }

\* the agents of the Agent store and their authors: a store of one agent,
\* and a store of two for the cascades over several agents
AgentAuthors == [A1 |-> "u1"]
TwoAgentAuthors == [A1 |-> "u1", A2 |-> "u2"]

\* a missing document
NoDoc == [present |-> FALSE]

VARIABLES
    actionStore,   \* action id -> the Action document, or NoDoc
    agents,        \* agent id -> [author, actions, tools]
    issued,        \* number of ids nanoid() has handed out
    parser,        \* the domain parser of this deployment
    inflight       \* the two requests served concurrently: where each is
                   \* between its store calls, and what it has read

vars == <<actionStore, agents, issued, parser, inflight>>


(***************************************************************************)
(* The stores (~/models/Action, ~/models/Agent).                           *)
(***************************************************************************)
\* getAction({ action_id })
getAction(store, action_id) ==
    IF action_id \in DOMAIN store THEN store[action_id] ELSE NoDoc

\* updateAction({ action_id }, update): upsert, the fields of `update` set.
\* Of the document, the fields a handler reads are kept: metadata.domain and
\* functions (user and agent_id are written and never read).
updateAction(store, action_id, update) ==
    LET doc == [present |-> TRUE,
                action_id |-> action_id,
                metadata |-> update.metadata,
                functions |-> update.functions]
    IN  [a \in DOMAIN store \cup {action_id} |->
            IF a = action_id THEN doc ELSE store[a]]

\* deleteAction({ action_id }): the store without the document
deleteAction(store, action_id) ==
    [a \in DOMAIN store |-> IF a = action_id THEN NoDoc ELSE store[a]]

\* getActions(): the documents of the store
getActions(store) == {store[a] : a \in {b \in DOMAIN store : store[b].present}}

\* { actions: { $elemMatch: { $regex: action_id, $options: 'i' } } }
MatchesActionRegex(agent, action_id) ==
    \E i \in 1..Len(agent.actions) :
        Includes(Lower(agent.actions[i]), Lower(action_id))

\* getAgents(query): the ids of the agents the query matches
getAgents(ags, action_id) ==
    {a \in DOMAIN ags : MatchesActionRegex(ags[a], action_id)}

\* bodies with the delimiter in a component of the references: in a function
\* name, in the domain; and one with it in neither
DelimitedBodies ==
    { [functions |-> << <<"f">> >>, metadata |-> [domain |-> DomainPlain]],
      [functions |-> << <<"f", "_", "x">> >>, metadata |-> [domain |-> DomainPlain]],
      [functions |-> << <<"f">> >>, metadata |-> [domain |-> DomainDelimited]] }

\* What the Agent store does during one request: the order in which its
\* queries list the agents, and the agents whose updateAgent throws (a
\* StoreError: the write is not made).
StoreRuns(ags) ==
    { [order |-> order, failing |-> failing] :
        order \in {o \in [1..Cardinality(DOMAIN ags) -> DOMAIN ags] :
                      \A a \in DOMAIN ags : \E i \in DOMAIN o : o[i] = a},
        failing \in SUBSET DOMAIN ags }

\* a request during which no write fails
NoFault(ags) == CHOOSE io \in StoreRuns(ags) : io.failing = {}

\* the result of getAgents(query), as the list the loops iterate
AgentList(ags, action_id, io) ==
    SelectSeq(io.order, LAMBDA a : a \in getAgents(ags, action_id))

\* Completed with the exception of updateAgent swallowed
CompletedDespiteFailure(list, io) == Len(list)

\* the number of iterations of `for (const agent of agents)` that complete:
\* all of them, or those before the first updateAgent that throws
Completed(list, io) ==
    IF \E i \in 1..Len(list) : list[i] \in io.failing
    THEN (CHOOSE i \in 1..Len(list) :
            /\ list[i] \in io.failing
            /\ \A j \in 1..(i - 1) : list[j] \notin io.failing) - 1
    ELSE Len(list)

\* AgentQuery without the author scope for callers who are no admin
AgentQueryById(user, agent_id) == [id |-> agent_id]

\* admin ? { id: agent_id } : { id: agent_id, author: req.user.id }
AgentQuery(user, agent_id) ==
    IF isAdmin(user) THEN [id |-> agent_id]
    ELSE [id |-> agent_id, author |-> user.id]

\* does the agent `a` of the store match the query
MatchesQuery(ags, a, query) ==
    /\ a = query.id
    /\ "author" \in DOMAIN query => ags[a].author = query.author

\* getAgent(query): the id of the matching agent, "" when there is none
getAgent(ags, query) ==
    IF \E a \in DOMAIN ags : MatchesQuery(ags, a, query)
    THEN CHOOSE a \in DOMAIN ags : MatchesQuery(ags, a, query)
    ELSE ""

\* updateAgent(query, { actions, tools })
updateAgent(ags, query, actions, tools) ==
    [a \in DOMAIN ags |->
        IF MatchesQuery(ags, a, query)
        THEN [ags[a] EXCEPT !.actions = actions, !.tools = tools]
        ELSE ags[a]]

(***************************************************************************)
(* The Reference Codec, as the handlers write it inline.                   *)
(***************************************************************************)
\* `${domain}${actionDelimiter}${action_id}`
EncodeActionRef(domain, action_id) == domain \o actionDelimiter \o action_id

\* EncodeToolRef with the two parts in the order of an action reference
EncodeToolRefSwapped(name, domain) == domain \o actionDelimiter \o name

\* `${name}${actionDelimiter}${domain}`
EncodeToolRef(name, domain) == name \o actionDelimiter \o domain

\* functions.map((f) => `${f}${actionDelimiter}${domain}`)
ToolRefs(functions, domain) ==
    [i \in 1..Len(functions) |-> EncodeToolRef(functions[i], domain)]

(***************************************************************************)
(* The route handlers.  Each gives the response and the stores it leaves:  *)
(* [status, message, json, store, agents, issued, writes], `json` being    *)
(* the set of Action documents of the response body and `writes` the       *)
(* number of store writes (updateAction, deleteAction, updateAgent) made.  *)
(***************************************************************************)
\* res.status(status).json({ message })
Reply(status, message, store, ags, n, writes) ==
    [status |-> status, message |-> message, json |-> {}, store |-> store,
     agents |-> ags, issued |-> n, writes |-> writes]

\* res.json(actions): the documents are the body, the status is 200
Send(actions, store, ags, n, writes) ==
    [status |-> 200, message |-> "", json |-> actions, store |-> store,
     agents |-> ags, issued |-> n, writes |-> writes]

\* for (let field of sensitiveFields)
\*   if (updatedAction.metadata[field]) delete updatedAction.metadata[field]
StripSensitive(updatedAction) ==
    LET deleted ==
            {sensitiveFields[i] : i \in
                {j \in 1..Len(sensitiveFields) :
                    /\ sensitiveFields[j] \in DOMAIN updatedAction.metadata
                    /\ Truthy(updatedAction.metadata[sensitiveFields[j]])}}
    IN  [updatedAction EXCEPT
            !.metadata = [key \in DOMAIN @ \ deleted |-> @[key]]]

\* router.post('/')
PostAction(store, ags, n, mode, functions, _metadata) ==
    LET metadata == encryptMetadata(removeNullishValues(_metadata))
        domain == domainParser(mode, metadata.domain)
        action_id == nanoid(n + 1)
        actionUpdateData == [metadata |-> metadata, functions |-> functions]
        store2 == updateAction(store, action_id, actionUpdateData)
        updatedAction == getAction(store2, action_id)
    IN  IF Len(functions) = 0
        THEN Reply(400, "No functions provided", store, ags, n, 0)
        ELSE IF ~isActionDomainAllowed(metadata.domain)
        THEN Reply(400, "Domain not allowed", store, ags, n, 0)
        ELSE IF domain = <<>>
        THEN Reply(400, "No domain provided", store, ags, n, 0)
        ELSE Send({StripSensitive(updatedAction)}, store2, ags, n + 1, 1)

\* DeleteCascadeStep that drops the tools containing the id and keeps those
\* of the domain
DeleteCascadeStepByIdOnly(agent, action_id, domain) ==
    [agent EXCEPT
        !.actions = SelectSeq(@, LAMBDA action : ~Includes(action, action_id)),
        !.tools = SelectSeq(@, LAMBDA tool :
                      ~(tool # <<>> /\ Includes(tool, action_id)))]

\* the body of the loop of router.delete('/:action_id') for one agent
DeleteCascadeStep(agent, action_id, domain) ==
    LET updatedActions ==
            SelectSeq(agent.actions, LAMBDA action : ~Includes(action, action_id))
        updatedTools ==
            SelectSeq(agent.tools, LAMBDA tool :
                ~(tool # <<>> /\ (Includes(tool, action_id) \/ Includes(tool, domain))))
    IN  [agent EXCEPT !.actions = updatedActions, !.tools = updatedTools]

\* router.delete('/:action_id')
DeleteAction(store, ags, n, mode, action_id, io) ==
    LET deletedAction == getAction(store, action_id)
    IN  IF ~deletedAction.present
        \* deletedAction is null: reading its metadata throws, the catch answers
        THEN Reply(500, "Trouble deleting the Agent Action", store, ags, n, 0)
        ELSE
        LET domain == domainParser(mode, deletedAction.metadata.domain)
            store2 == deleteAction(store, action_id)
            list == AgentList(ags, action_id, io)
            done == Completed(list, io)
            ags2 == [a \in DOMAIN ags |->
                        IF \E i \in 1..done : list[i] = a
                        THEN DeleteCascadeStep(ags[a], action_id, domain)
                        ELSE ags[a]]
        IN  IF done < Len(list)
            \* updateAgent threw: the loop is left for the catch
            THEN Reply(500, "Trouble deleting the Agent Action", store2, ags2, n,
                       1 + done)
            ELSE Reply(200, "Action deleted successfully", store2, ags2, n,
                       1 + done)

\* the body of the loop of router.put('/:action_id') for one agent
UpdateCascadeStep(agent, action_id, oldDomain, domain, functions) ==
    LET updatedActions ==
            Append(SelectSeq(agent.actions, LAMBDA action : ~Includes(action, action_id)),
                   EncodeActionRef(domain, action_id))
        updatedTools ==
            SelectSeq(agent.tools, LAMBDA tool :
                ~(tool # <<>> /\ (Includes(tool, oldDomain) \/ Includes(tool, action_id))))
            \o ToolRefs(functions, domain)
    IN  [agent EXCEPT !.actions = updatedActions, !.tools = updatedTools]

\* PutAction that resolves the domain after it has saved the action and run
\* the cascade
PutActionSavesFirst(store, ags, n, mode, action_id, functions, _metadata, io) ==
    LET action == getAction(store, action_id)
        metadata == encryptMetadata(removeNullishValues(_metadata))
        domain == domainParser(mode, metadata.domain)
        store2 == updateAction(store, action_id,
                               [metadata |-> metadata, functions |-> functions])
        ags2 == [a \in DOMAIN ags |->
                    IF a \in getAgents(ags, action_id)
                    THEN UpdateCascadeStep(ags[a], action_id, action.metadata.domain,
                                           domain, functions)
                    ELSE ags[a]]
    IN  IF ~action.present
        THEN Reply(404, "Action not found", store, ags, n, 0)
        ELSE IF Len(functions) = 0
        THEN Reply(400, "No functions provided", store, ags, n, 0)
        ELSE IF ~isActionDomainAllowed(metadata.domain)
        THEN Reply(400, "Domain not allowed", store, ags, n, 0)
        ELSE IF domain = <<>>
        THEN Reply(400, "No domain provided", store2, ags2, n,
                   1 + Cardinality(getAgents(ags, action_id)))
        ELSE Send({StripSensitive(getAction(store2, action_id))}, store2, ags2, n,
                  1 + Cardinality(getAgents(ags, action_id)))

\* router.put('/:action_id')
PutAction(store, ags, n, mode, action_id, functions, _metadata, io) ==
    LET action == getAction(store, action_id)
    IN  IF ~action.present
        THEN Reply(404, "Action not found", store, ags, n, 0)
        ELSE
        LET oldDomain == action.metadata.domain
            metadata == encryptMetadata(removeNullishValues(_metadata))
            domain == domainParser(mode, metadata.domain)
            actionUpdateData == [metadata |-> metadata, functions |-> functions]
            store2 == updateAction(store, action_id, actionUpdateData)
            updatedAction == getAction(store2, action_id)
            list == AgentList(ags, action_id, io)
            done == Completed(list, io)
            ags2 == [a \in DOMAIN ags |->
                        IF \E i \in 1..done : list[i] = a
                        THEN UpdateCascadeStep(ags[a], action_id, oldDomain, domain,
                                               functions)
                        ELSE ags[a]]
        IN  IF Len(functions) = 0
            THEN Reply(400, "No functions provided", store, ags, n, 0)
            ELSE IF ~isActionDomainAllowed(metadata.domain)
            THEN Reply(400, "Domain not allowed", store, ags, n, 0)
            ELSE IF domain = <<>>
            THEN Reply(400, "No domain provided", store, ags, n, 0)
            ELSE IF done < Len(list)
            \* updateAgent threw: the loop is left for the catch
            THEN Reply(500, "Trouble updating the Agent Action", store2, ags2, n,
                       1 + done)
            ELSE Send({StripSensitive(updatedAction)}, store2, ags2, n, 1 + done)

\* HasActionRef with the lookup lost: the reference is always pushed
HasActionRefNever(agentActions, action_id) == FALSE

\* HasActionRef comparing the whole reference with the id (=== for includes)
HasActionRefExact(agentActions, action_id) ==
    \E i \in 1..Len(agentActions) : agentActions[i] = action_id

\* agentActions.find((a) => a.includes(action_id)), as a boolean
HasActionRef(agentActions, action_id) ==
    \E i \in 1..Len(agentActions) : Includes(agentActions[i], action_id)

\* router.post('/:agent_id/:action_id')
PostAgentAction(store, ags, n, mode, user, agent_id, action_id) ==
    LET agentQuery == AgentQuery(user, agent_id)
        agent_ == getAgent(ags, agentQuery)
        action == getAction(store, action_id)
    IN  IF agent_ = ""
        THEN Reply(404, "Agent not found for adding action", store, ags, n, 0)
        ELSE IF ~action.present
        THEN Reply(404, "Action not found for adding to agent", store, ags, n, 0)
        ELSE
        LET agent == ags[agent_]
            domain == domainParser(mode, action.metadata.domain)
            functions == action.functions
            agentActions == Append(agent.actions, EncodeActionRef(domain, action_id))
            tools ==
                SelectSeq(agent.tools, LAMBDA tool :
                    ~(tool # <<>> /\ (Includes(tool, domain) \/ Includes(tool, action_id))))
                \o ToolRefs(functions, domain)
        IN  IF ~HasActionRef(agent.actions, action_id)
            THEN Reply(200, "Action added successfully", store,
                       updateAgent(ags, agentQuery, agentActions, tools), n, 1)
            ELSE Reply(200, "Action added successfully", store, ags, n, 0)

\* NoDomainToUnbind with the check left out
NoDomainToUnbindNever(domain) == FALSE

\* !domain, of the domain the filter over `actions` extracted
NoDomainToUnbind(domain) == domain = <<>>

\* the `domain` the filter over `actions` leaves: '' when no entry contains
\* the id; the callback assigns it at every hit, so the last hit stays
ExtractedDomain(actions, action_id) ==
    LET hits == {i \in 1..Len(actions) : Includes(actions[i], action_id)}
    IN  IF hits = {} THEN <<>>
        ELSE SplitFirst(actions[CHOOSE i \in hits : \A j \in hits : j <= i],
                        actionDelimiter)

\* router.delete('/:agent_id/:action_id')
DeleteAgentAction(store, ags, n, mode, user, agent_id, action_id) ==
    LET agentQuery == AgentQuery(user, agent_id)
        agent_ == getAgent(ags, agentQuery)
    IN  IF agent_ = ""
        THEN Reply(404, "Agent not found for deleting action", store, ags, n, 0)
        ELSE
        LET agent == ags[agent_]
            domain == ExtractedDomain(agent.actions, action_id)
            updatedActions ==
                SelectSeq(agent.actions, LAMBDA action : ~Includes(action, action_id))
            updatedTools ==
                SelectSeq(agent.tools, LAMBDA tool :
                    ~(tool # <<>> /\ Includes(tool, domain)))
        IN  IF NoDomainToUnbind(domain)
            THEN Reply(400, "No domain provided", store, ags, n, 0)
            ELSE Reply(200, "Action deleted for agent successfully", store,
                       updateAgent(ags, agentQuery, updatedActions, updatedTools), n, 1)

\* router.get('/')
GetActions(store, ags, n) == Send(getActions(store), store, ags, n, 0)

(***************************************************************************)
(* The state machine: one request at a time, each run to its response.     *)
(* The response goes to the caller and is no part of the state.            *)
(***************************************************************************)
\* action ids a request may name: the issued ones and one never issued
ActionIdParams == {nanoid(i) : i \in 0..issued}

\* agent ids a request may name: the agents and one that does not exist
AgentIdParams == DOMAIN agents \cup {"A0"}

\* no request is between two store calls
NoRequests ==
    [bind |-> [pc |-> "idle", status |-> 0, user |-> [id |-> "", role |-> ""],
               agent_id |-> "", action_id |-> <<>>, agents |-> <<>>,
               action |-> NoDoc],
     del |-> [pc |-> "idle", status |-> 0, action_id |-> <<>>,
              deletedAction |-> NoDoc, agents |-> <<>>, next |-> 1]]

\* no action yet, and agents (created elsewhere) that bind nothing
InitWith(authors) ==
    /\ actionStore = [a \in ActionIds |-> NoDoc]
    /\ agents = [a \in DOMAIN authors |->
                    [author |-> authors[a], actions |-> <<>>, tools |-> <<>>]]
    /\ issued = 0
    /\ parser \in ParserModes
    /\ inflight = NoRequests

Init == InitWith(AgentAuthors)

InitTwo == InitWith(TwoAgentAuthors)

\* the stores are as the handler that answered `r` left them
Commit(r) ==
    /\ \A a \in DOMAIN r.agents : Len(r.agents[a].tools) <= MaxTools
    /\ actionStore' = r.store
    /\ agents' = r.agents
    /\ issued' = r.issued
    /\ parser' = parser
    /\ inflight' = inflight

List ==
    Commit(GetActions(actionStore, agents, issued))

CreateAction ==
    \E body \in Bodies :
        /\ issued < MaxActions
        /\ Commit(PostAction(actionStore, agents, issued, parser,
                             body.functions, body.metadata))

UpdateAction ==
    \E action_id \in ActionIdParams, body \in Bodies :
        Commit(PutAction(actionStore, agents, issued, parser, action_id,
                         body.functions, body.metadata, NoFault(agents)))

DeleteActionReq ==
    \E action_id \in ActionIdParams :
        Commit(DeleteAction(actionStore, agents, issued, parser, action_id,
                            NoFault(agents)))

BindActionToAgent ==
    \E user \in Identities, agent_id \in AgentIdParams, action_id \in ActionIdParams :
        Commit(PostAgentAction(actionStore, agents, issued, parser, user, agent_id,
                               action_id))

UnbindActionFromAgent ==
    \E user \in Identities, agent_id \in AgentIdParams, action_id \in ActionIdParams :
        Commit(DeleteAgentAction(actionStore, agents, issued, parser, user, agent_id,
                                 action_id))

Next ==
    \/ List
    \/ CreateAction
    \/ UpdateAction
    \/ DeleteActionReq
    \/ BindActionToAgent
    \/ UnbindActionFromAgent

Spec == Init /\ [][Next]_vars

\* the same requests, served over a store of two agents
SpecTwo == InitTwo /\ [][Next]_vars

\* the requests whose metadata carries credentials
CreateActionWithSecrets ==
    \E body \in SecretBodies :
        /\ issued < MaxActions
        /\ Commit(PostAction(actionStore, agents, issued, parser,
                             body.functions, body.metadata))

UpdateActionWithSecrets ==
    \E action_id \in ActionIdParams, body \in SecretBodies :
        Commit(PutAction(actionStore, agents, issued, parser, action_id,
                         body.functions, body.metadata, NoFault(agents)))

NextSecrets ==
    \/ List
    \/ CreateActionWithSecrets
    \/ UpdateActionWithSecrets
    \/ DeleteActionReq
    \/ BindActionToAgent
    \/ UnbindActionFromAgent

SpecSecrets == Init /\ [][NextSecrets]_vars

\* the requests whose function names and domains may hold the delimiter
CreateActionDelimited ==
    \E body \in DelimitedBodies :
        /\ issued < MaxActions
        /\ Commit(PostAction(actionStore, agents, issued, parser,
                             body.functions, body.metadata))

UpdateActionDelimited ==
    \E action_id \in ActionIdParams, body \in DelimitedBodies :
        Commit(PutAction(actionStore, agents, issued, parser, action_id,
                         body.functions, body.metadata, NoFault(agents)))

NextDelimited ==
    \/ List
    \/ CreateActionDelimited
    \/ UpdateActionDelimited
    \/ DeleteActionReq
    \/ BindActionToAgent
    \/ UnbindActionFromAgent

SpecDelimited == Init /\ [][NextDelimited]_vars

\* the bodies of the requests served with failing writes: actions of one
\* domain, with one function or two
CascadeBodies ==
    [functions : FunctionLists, metadata : {[domain |-> DomainPlain]}]

CreateActionForCascade ==
    \E body \in CascadeBodies :
        /\ issued < MaxActions
        /\ Commit(PostAction(actionStore, agents, issued, parser,
                             body.functions, body.metadata))

\* the cascading requests, served by an Agent store whose writes may fail
UpdateActionDespiteFaults ==
    \E action_id \in ActionIdParams, body \in CascadeBodies, io \in StoreRuns(agents) :
        Commit(PutAction(actionStore, agents, issued, parser, action_id,
                         body.functions, body.metadata, io))

DeleteActionDespiteFaults ==
    \E action_id \in ActionIdParams, io \in StoreRuns(agents) :
        Commit(DeleteAction(actionStore, agents, issued, parser, action_id, io))

NextFaults ==
    \/ List
    \/ CreateActionForCascade
    \/ UpdateActionDespiteFaults
    \/ DeleteActionDespiteFaults
    \/ BindActionToAgent
    \/ UnbindActionFromAgent

\* two agents, and cascades that a failing write may cut short
SpecFaults == InitTwo /\ [][NextFaults]_vars

(***************************************************************************)
(* Two requests served concurrently, POST /:agent_id/:action_id and        *)
(* DELETE /:action_id: every `await` of a store call is a step, and the    *)
(* steps of the two interleave.  What a request writes is what its handler *)
(* computes from the documents it has read.                                *)
(***************************************************************************)
\* const agent = await getAgent(agentQuery)
BindGetAgent ==
    \E user \in Identities, agent_id \in AgentIdParams, action_id \in ActionIdParams :
        /\ inflight.bind.pc = "idle"
        /\ LET found == getAgent(agents, AgentQuery(user, agent_id)) # ""
           IN  inflight' =
                 [inflight EXCEPT !.bind =
                     [pc |-> IF found THEN "getAction" ELSE "done",
                      status |-> IF found THEN 0 ELSE 404,
                      user |-> user, agent_id |-> agent_id, action_id |-> action_id,
                      agents |-> agents, action |-> NoDoc]]
        /\ UNCHANGED <<actionStore, agents, issued, parser>>

\* const action = await getAction({ action_id })
BindGetAction ==
    /\ inflight.bind.pc = "getAction"
    /\ LET action == getAction(actionStore, inflight.bind.action_id)
       IN  inflight' =
             [inflight EXCEPT !.bind.pc = IF action.present THEN "updateAgent"
                                          ELSE "done",
                              !.bind.status = IF action.present THEN 0 ELSE 404,
                              !.bind.action = action]
    /\ UNCHANGED <<actionStore, agents, issued, parser>>

\* await updateAgent(agentQuery, { actions: agentActions, tools: tools }),
\* when the agent read has no reference to the action; then the response
BindUpdateAgent ==
    LET b == inflight.bind
        r == PostAgentAction([x \in {b.action_id} |-> b.action], b.agents, issued,
                             parser, b.user, b.agent_id, b.action_id)
        written == updateAgent(agents, AgentQuery(b.user, b.agent_id),
                               r.agents[b.agent_id].actions,
                               r.agents[b.agent_id].tools)
    IN  /\ b.pc = "updateAgent"
        /\ Len(r.agents[b.agent_id].tools) <= MaxTools
        /\ agents' = IF r.writes = 1 THEN written ELSE agents
        /\ inflight' = [inflight EXCEPT !.bind.pc = "done",
                                        !.bind.status = r.status]
        /\ UNCHANGED <<actionStore, issued, parser>>

\* const deletedAction = await deleteAction({ action_id })
DeleteDeleteAction ==
    \E action_id \in ActionIdParams :
        LET deletedAction == getAction(actionStore, action_id)
        IN  /\ inflight.del.pc = "idle"
            /\ actionStore' = deleteAction(actionStore, action_id)
            /\ inflight' =
                  [inflight EXCEPT !.del =
                      [pc |-> IF deletedAction.present THEN "getAgents" ELSE "done",
                       status |-> IF deletedAction.present THEN 0 ELSE 500,
                       action_id |-> action_id, deletedAction |-> deletedAction,
                       agents |-> <<>>, next |-> 1]]
            /\ UNCHANGED <<agents, issued, parser>>

\* const agents = await getAgents(...); the response when the list is empty
DeleteGetAgents ==
    LET list == AgentList(agents, inflight.del.action_id, NoFault(agents))
    IN  /\ inflight.del.pc = "getAgents"
        /\ inflight' =
              [inflight EXCEPT !.del.agents = agents,
                               !.del.pc = IF list = <<>> THEN "done"
                                          ELSE "updateAgent",
                               !.del.status = IF list = <<>> THEN 200 ELSE 0]
        /\ UNCHANGED <<actionStore, agents, issued, parser>>

\* await updateAgent({ id: agentId }, ...) for the next agent of the list;
\* the response after the last
DeleteUpdateAgent ==
    LET d == inflight.del
        list == AgentList(d.agents, d.action_id, NoFault(d.agents))
        agentId == list[d.next]
        r == DeleteAction([x \in {d.action_id} |-> d.deletedAction], d.agents,
                          issued, parser, d.action_id, NoFault(d.agents))
    IN  /\ d.pc = "updateAgent"
        /\ agents' = updateAgent(agents, [id |-> agentId],
                                 r.agents[agentId].actions, r.agents[agentId].tools)
        /\ inflight' =
              [inflight EXCEPT !.del.next = d.next + 1,
                               !.del.pc = IF d.next = Len(list) THEN "done"
                                          ELSE "updateAgent",
                               !.del.status = IF d.next = Len(list) THEN 200 ELSE 0]
        /\ UNCHANGED <<actionStore, issued, parser>>

\* the requests in flight have all been answered
BothAnswered ==
    /\ inflight # NoRequests
    /\ inflight.bind.pc \in {"idle", "done"}
    /\ inflight.del.pc \in {"idle", "done"}
    /\ inflight' = NoRequests
    /\ UNCHANGED <<actionStore, agents, issued, parser>>

\* an action is created while no other request is in flight
CreateActionAlone ==
    /\ inflight = NoRequests
    /\ CreateActionForCascade

NextConcurrent ==
    \/ CreateActionAlone
    \/ BindGetAgent
    \/ BindGetAction
    \/ BindUpdateAgent
    \/ DeleteDeleteAction
    \/ DeleteGetAgents
    \/ DeleteUpdateAgent
    \/ BothAnswered

\* DELETE /:action_id served concurrently with POST /:agent_id/:action_id
SpecConcurrent == InitTwo /\ [][NextConcurrent]_vars

(***************************************************************************)
(* The reference formats of the data model, for stating the properties:    *)
(* an action reference is domain<DELIM>actionId, a tool reference is       *)
(* functionName<DELIM>domain.                                              *)
(***************************************************************************)
DELIM == <<"_">>

\* the elements of a sequence
Range(s) == {s[i] : i \in 1..Len(s)}

\* the rest of s after the first sep (the empty string when sep is absent)
AfterFirst(s, sep) ==
    IF IndexOf(s, sep) = 0 THEN <<>>
    ELSE SubSeq(s, IndexOf(s, sep) + Len(sep), Len(s))

ActionRefOf(domain, actionId) == domain \o DELIM \o actionId
ToolRefOf(functionName, domain) == functionName \o DELIM \o domain

RefDomain(ref) == SplitFirst(ref, DELIM)
RefActionId(ref) == AfterFirst(ref, DELIM)
ToolFunction(ref) == SplitFirst(ref, DELIM)
ToolDomain(ref) == AfterFirst(ref, DELIM)

\* the places of the actionRefs entries of an agent that contain the id
RefsTo(agent, actionId) ==
    {i \in 1..Len(agent.actions) : Includes(agent.actions[i], actionId)}

\* the stored actions an agent binds: those its actionRefs entries name
BoundActions(agent) ==
    {id \in DOMAIN actionStore :
        /\ actionStore[id].present
        /\ \E i \in 1..Len(agent.actions) : RefActionId(agent.actions[i]) = id}

\* the domain an agent binds the action under
BoundDomain(agent, actionId) ==
    RefDomain(agent.actions[CHOOSE i \in 1..Len(agent.actions) :
                                RefActionId(agent.actions[i]) = actionId])

(***************************************************************************)
(* C1 -- Invariant A: whatever requests have been served, no agent has two *)
(* actionRefs entries that reference the same action id.                   *)
(***************************************************************************)
C1_InvariantA ==
    \A a \in DOMAIN agents : \A id \in ActionIds :
        Cardinality(RefsTo(agents[a], id)) <= 1

\* an agent binds two actions, the second bound after the first
C1_Witness ==
    \E a \in DOMAIN agents :
        /\ Len(agents[a].actions) = 2
        /\ \A id \in ActionIds : Cardinality(RefsTo(agents[a], id)) = 1

(***************************************************************************)
(* C2 -- every function of an action is a tool of every agent that binds   *)
(* the action: the agent's toolRefs hold functionName<DELIM>d for each     *)
(* function name of the action, d being the domain of the agent's          *)
(* actionRefs entry for it.                                                *)
(***************************************************************************)
C2_BoundFunctionsAreTools ==
    \A a \in DOMAIN agents : \A id \in BoundActions(agents[a]) :
        \A k \in 1..Len(actionStore[id].functions) :
            ToolRefOf(actionStore[id].functions[k], BoundDomain(agents[a], id))
                \in Range(agents[a].tools)

(***************************************************************************)
(* C3 -- Invariant B: a toolRefs entry whose domain part is the domain of  *)
(* bound actions of the agent names a function of such an action (of one   *)
(* of them, when several bound actions share the domain).                  *)
(***************************************************************************)
\* the bound actions of the agent whose domain is that of the tool reference
ServedBy(agent, tool) ==
    {id \in BoundActions(agent) : BoundDomain(agent, id) = ToolDomain(tool)}

C3_InvariantB ==
    \A a \in DOMAIN agents : \A t \in Range(agents[a].tools) :
        ServedBy(agents[a], t) # {}
            => \E id \in ServedBy(agents[a], t) :
                    ToolFunction(t) \in Range(actionStore[id].functions)

(***************************************************************************)
(* Requests, for the properties of one handler: the property is stated of  *)
(* the handler's answer to every request in every reachable state.         *)
(***************************************************************************)
\* the agent the identity may modify: the admin any agent, a user its own
CanModify(user, agent_id) ==
    /\ agent_id \in DOMAIN agents
    /\ user.role = ADMIN \/ user.id = agents[agent_id].author

Update(action_id, body) ==
    PutAction(actionStore, agents, issued, parser, action_id, body.functions,
              body.metadata, NoFault(agents))

Create(body) ==
    PostAction(actionStore, agents, issued, parser, body.functions, body.metadata)

Delete(action_id) ==
    DeleteAction(actionStore, agents, issued, parser, action_id, NoFault(agents))

Bind(user, agent_id, action_id) ==
    PostAgentAction(actionStore, agents, issued, parser, user, agent_id, action_id)

Unbind(user, agent_id, action_id) ==
    DeleteAgentAction(actionStore, agents, issued, parser, user, agent_id, action_id)

\* the handler answered without a store write and left both stores as they were
NothingWritten(r) ==
    /\ r.store = actionStore
    /\ r.agents = agents
    /\ r.writes = 0

(***************************************************************************)
(* C4 -- a successful UpdateAction that changes the action's domain leaves *)
(* every agent that had bound the action with exactly one actionRefs entry *)
(* for it, resolvedNewDomain<DELIM>actionId, and with no toolRefs entry of *)
(* the old resolved domain.                                                *)
(***************************************************************************)
C4_UpdateDropsOldDomain ==
    \A action_id \in ActionIdParams : \A body \in Bodies :
        LET r == Update(action_id, body)
            old == getAction(actionStore, action_id)
        IN  (r.status = 200 /\ body.metadata.domain # old.metadata.domain) =>
                \A a \in DOMAIN agents :
                    RefsTo(agents[a], action_id) # {} =>
                        /\ Cardinality(RefsTo(r.agents[a], action_id)) = 1
                        /\ ActionRefOf(domainParser(parser, body.metadata.domain), action_id)
                               \in Range(r.agents[a].actions)
                        /\ \A t \in Range(r.agents[a].tools) :
                               ToolDomain(t) # domainParser(parser, old.metadata.domain)

(***************************************************************************)
(* C5 -- after a successful DeleteAction the action record is gone and no  *)
(* agent has an actionRefs entry containing the id, nor a toolRefs entry   *)
(* containing the id or the deleted action's resolved domain.              *)
(***************************************************************************)
C5_DeleteLeavesNoReference ==
    \A action_id \in ActionIdParams :
        LET r == Delete(action_id)
            domain == domainParser(parser, getAction(actionStore, action_id).metadata.domain)
        IN  r.status = 200 =>
                /\ ~getAction(r.store, action_id).present
                /\ \A a \in DOMAIN r.agents :
                      /\ RefsTo(r.agents[a], action_id) = {}
                      /\ \A t \in Range(r.agents[a].tools) :
                            ~Includes(t, action_id) /\ ~Includes(t, domain)

(***************************************************************************)
(* C5, amended -- after a successful DeleteAction the action record is     *)
(* gone, no agent has an actionRefs entry containing the id, and no agent  *)
(* that had such an entry has a toolRefs entry containing the id or the    *)
(* deleted action's resolved domain.                                       *)
(***************************************************************************)
C5_DeleteCleansBoundAgents ==
    \A action_id \in ActionIdParams :
        LET r == Delete(action_id)
            domain == domainParser(parser, getAction(actionStore, action_id).metadata.domain)
        IN  r.status = 200 =>
                /\ ~getAction(r.store, action_id).present
                /\ \A a \in DOMAIN r.agents :
                      /\ RefsTo(r.agents[a], action_id) = {}
                      /\ RefsTo(agents[a], action_id) # {} =>
                            \A t \in Range(r.agents[a].tools) :
                                ~Includes(t, action_id) /\ ~Includes(t, domain)

\* an action is deleted that two agents bind, one of them next to another
\* action: the cascade writes both and drops tool references
C5_Witness ==
    \E action_id \in ActionIdParams : \E a \in DOMAIN agents :
        /\ Delete(action_id).status = 200
        /\ Delete(action_id).writes = 3
        /\ \A b \in DOMAIN agents : RefsTo(agents[b], action_id) # {}
        /\ Len(agents[a].actions) = 2
        /\ Len(Delete(action_id).agents[a].tools) < Len(agents[a].tools)

(***************************************************************************)
(* C6 -- a successful BindActionToAgent on an agent with no actionRefs     *)
(* entry for the action leaves the agent with exactly one entry for it,    *)
(* resolvedDomain<DELIM>actionId, appended to the earlier entries; its     *)
(* toolRefs are the earlier ones without those containing the domain or    *)
(* the id, followed by functionName<DELIM>resolvedDomain for every         *)
(* function name of the action.                                            *)
(***************************************************************************)
\* the entries of toolRefs that contain the domain or the action id
Matching(tools, domain, actionId) ==
    SelectSeq(tools, LAMBDA t : Includes(t, domain) \/ Includes(t, actionId))

\* the entries of toolRefs that contain neither
NotMatching(tools, domain, actionId) ==
    SelectSeq(tools, LAMBDA t : ~(Includes(t, domain) \/ Includes(t, actionId)))

C6_BindAddsReferences ==
    \A user \in Identities : \A agent_id \in AgentIdParams :
        \A action_id \in ActionIdParams :
            LET r == Bind(user, agent_id, action_id)
                action == getAction(actionStore, action_id)
                domain == domainParser(parser, action.metadata.domain)
                before == agents[agent_id]
                after == r.agents[agent_id]
            IN  (r.status = 200 /\ RefsTo(agents[agent_id], action_id) = {}) =>
                    /\ after.actions
                         = Append(before.actions, ActionRefOf(domain, action_id))
                    /\ Cardinality(RefsTo(after, action_id)) = 1
                    /\ after.tools
                         = NotMatching(before.tools, domain, action_id)
                           \o [k \in 1..Len(action.functions) |->
                                  ToolRefOf(action.functions[k], domain)]
                    /\ r.store = actionStore

\* the action is bound to an agent that holds tool references of its domain
\* from another action: they are replaced
C6_Witness ==
    \E user \in Identities : \E agent_id \in AgentIdParams :
        \E action_id \in ActionIdParams :
            LET r == Bind(user, agent_id, action_id) IN
            /\ r.status = 200
            /\ r.writes = 1
            /\ RefsTo(agents[agent_id], action_id) = {}
            /\ Matching(agents[agent_id].tools,
                        domainParser(parser,
                                     getAction(actionStore, action_id).metadata.domain),
                        action_id) # <<>>

(***************************************************************************)
(* C7 -- Bind is idempotent: a second BindActionToAgent for the same agent *)
(* and action, right after a successful first one, succeeds, writes        *)
(* nothing, and leaves the agent's actionRefs and toolRefs as the first    *)
(* call left them.                                                         *)
(***************************************************************************)
C7_BindIsIdempotent ==
    \A user \in Identities : \A agent_id \in AgentIdParams :
        \A action_id \in ActionIdParams :
            LET first == Bind(user, agent_id, action_id)
                second == PostAgentAction(first.store, first.agents, first.issued,
                                          parser, user, agent_id, action_id)
            IN  first.status = 200 =>
                    /\ second.status = 200
                    /\ second.writes = 0
                    /\ second.agents = first.agents
                    /\ second.store = first.store

\* a first Bind that writes the agent, which binds another action already
C7_Witness ==
    \E user \in Identities : \E agent_id \in AgentIdParams :
        \E action_id \in ActionIdParams :
            /\ Bind(user, agent_id, action_id).status = 200
            /\ Bind(user, agent_id, action_id).writes = 1
            /\ Len(agents[agent_id].actions) = 1

(***************************************************************************)
(* C8 -- UnbindActionFromAgent on an agent the identity may modify, which  *)
(* has no actionRefs entry containing the action id, is answered with the  *)
(* validation error "No domain provided" and writes nothing.               *)
(***************************************************************************)
C8_UnbindWithoutReferenceFails ==
    \A user \in Identities : \A agent_id \in AgentIdParams :
        \A action_id \in ActionIdParams :
            LET r == Unbind(user, agent_id, action_id)
            IN  (CanModify(user, agent_id) /\ RefsTo(agents[agent_id], action_id) = {}) =>
                    /\ r.status = 400
                    /\ r.message = "No domain provided"
                    /\ NothingWritten(r)

\* the agent binds an action and has its tools; another action is unbound
C8_Witness ==
    \E user \in Identities : \E agent_id \in AgentIdParams :
        \E action_id \in ActionIdParams :
            /\ CanModify(user, agent_id)
            /\ RefsTo(agents[agent_id], action_id) = {}
            /\ getAction(actionStore, action_id).present
            /\ agents[agent_id].actions # <<>>
            /\ agents[agent_id].tools # <<>>
            /\ Unbind(user, agent_id, action_id).status = 400

(***************************************************************************)
(* C9 -- CreateAction, UpdateAction and BindActionToAgent answered with a  *)
(* validation error (no functions, no domain), "Domain not allowed" or     *)
(* not-found (action, agent) have written nothing: the Action store and    *)
(* every agent's actionRefs and toolRefs are as before the call.           *)
(***************************************************************************)
Rejections ==
    { "No functions provided", "Domain not allowed", "No domain provided",
      "Action not found", "Agent not found for adding action",
      "Action not found for adding to agent" }

Rejected(r) == r.status \in {400, 404} /\ r.message \in Rejections

C9_RejectionsWriteNothing ==
    /\ \A body \in Bodies :
          LET r == Create(body)
          IN  /\ r.status # 200 => Rejected(r)
              /\ Rejected(r) => NothingWritten(r) /\ r.issued = issued
    /\ \A action_id \in ActionIdParams : \A body \in Bodies :
          LET r == Update(action_id, body)
          IN  /\ r.status # 200 => Rejected(r)
              /\ Rejected(r) => NothingWritten(r)
    /\ \A user \in Identities : \A agent_id \in AgentIdParams :
          \A action_id \in ActionIdParams :
              LET r == Bind(user, agent_id, action_id)
              IN  /\ r.status # 200 => Rejected(r)
                  /\ Rejected(r) => NothingWritten(r)

\* an update of an action an agent binds is rejected for its domain, which
\* the validator allows and the parser resolves to nothing
C9_Witness ==
    \E action_id \in ActionIdParams : \E body \in Bodies : \E a \in DOMAIN agents :
        /\ RefsTo(agents[a], action_id) # {}
        /\ Update(action_id, body).status = 400
        /\ Update(action_id, body).message = "No domain provided"
        /\ body.metadata.domain # getAction(actionStore, action_id).metadata.domain

(***************************************************************************)
(* C10 -- Bind and Unbind by an identity that is neither an admin nor the  *)
(* agent's author are answered as for an agent that does not exist (404,   *)
(* agent not found) and write nothing; for an admin on any existing agent  *)
(* and for the author on the own agent they pass the agent lookup, and     *)
(* both get the same answer and the same effect.                           *)
(***************************************************************************)
\* the answer and the stores of two replies agree
SameOutcome(r1, r2) ==
    /\ r1.status = r2.status
    /\ r1.message = r2.message
    /\ r1.agents = r2.agents
    /\ r1.store = r2.store

Admin == CHOOSE u \in Identities : u.role = ADMIN

C10_OnlyAuthorOrAdminModifies ==
    \A user \in Identities : \A agent_id \in DOMAIN agents :
        \A action_id \in ActionIdParams :
            LET b == Bind(user, agent_id, action_id)
                u == Unbind(user, agent_id, action_id)
            IN  IF CanModify(user, agent_id)
                THEN /\ SameOutcome(b, Bind(Admin, agent_id, action_id))
                     /\ SameOutcome(u, Unbind(Admin, agent_id, action_id))
                     /\ b.message # "Agent not found for adding action"
                     /\ u.message # "Agent not found for deleting action"
                ELSE /\ b.status = 404
                     /\ b.message = "Agent not found for adding action"
                     /\ SameOutcome(b, Bind(user, "A0", action_id))
                     /\ NothingWritten(b)
                     /\ u.status = 404
                     /\ u.message = "Agent not found for deleting action"
                     /\ SameOutcome(u, Unbind(user, "A0", action_id))
                     /\ NothingWritten(u)

\* an identity that is neither admin nor author asks to unbind an action the
\* agent binds and to bind one it does not bind: the author would succeed
C10_Witness ==
    \E user \in Identities : \E agent_id \in DOMAIN agents :
        \E x \in ActionIdParams : \E y \in ActionIdParams :
            /\ ~CanModify(user, agent_id)
            /\ Unbind(Admin, agent_id, x).status = 200
            /\ Unbind(user, agent_id, x).status = 404
            /\ Bind(Admin, agent_id, y).writes = 1
            /\ Bind(user, agent_id, y).status = 404

(***************************************************************************)
(* C11 -- no operation returns an action with a secret metadata field: the *)
(* action documents in the responses of List, CreateAction and             *)
(* UpdateAction have none of the keys api_key, oauth_client_id,            *)
(* oauth_client_secret in their metadata, whatever the stored metadata     *)
(* holds under those keys.                                                 *)
(***************************************************************************)
SecretKeys == {"api_key", "oauth_client_id", "oauth_client_secret"}

HasSecretKey(action) == DOMAIN action.metadata \cap SecretKeys # {}

C11_NoSecretReturned ==
    /\ \A body \in SecretBodies :
          \A action \in Create(body).json : ~HasSecretKey(action)
    /\ \A action_id \in ActionIdParams : \A body \in SecretBodies :
          \A action \in Update(action_id, body).json : ~HasSecretKey(action)
    /\ \A action \in GetActions(actionStore, agents, issued).json :
          ~HasSecretKey(action)

(***************************************************************************)
(* C12 -- DeleteAction of an action id that is not in the Action store is  *)
(* answered with a not-found error (404), and every agent's actionRefs and *)
(* toolRefs are as before the call.                                        *)
(***************************************************************************)
C12_DeleteMissingIsNotFound ==
    \A action_id \in ActionIdParams :
        ~getAction(actionStore, action_id).present =>
            /\ Delete(action_id).status = 404
            /\ Delete(action_id).agents = agents

(***************************************************************************)
(* C13 -- when a per-agent write fails partway through the cascade of      *)
(* UpdateAction or DeleteAction, the operation reports a failure; the      *)
(* agents processed before the failing one have the references a run       *)
(* without failure gives them; the failing agent, the agents after it and  *)
(* the agents that do not bind the action have their previous references;  *)
(* and the Action record is as the operation changed it before the cascade *)
(* (updated, or deleted): it is not rolled back.                           *)
(***************************************************************************)
\* the agents that bind the action, in the order the store lists them
Binding(action_id, io) ==
    SelectSeq(io.order, LAMBDA a : RefsTo(agents[a], action_id) # {})

\* a write of the cascade over these agents fails
FailsPartway(action_id, io) ==
    \E i \in 1..Len(Binding(action_id, io)) : Binding(action_id, io)[i] \in io.failing

\* the agent comes in the list before every agent whose write fails
ProcessedBeforeFailure(a, action_id, io) ==
    \E i \in 1..Len(Binding(action_id, io)) :
        /\ Binding(action_id, io)[i] = a
        /\ \A j \in 1..i : Binding(action_id, io)[j] \notin io.failing

\* r is the outcome of a cascade cut short, `whole` that of the same request
\* served without failure
CutShort(r, whole, action_id, io) ==
    /\ r.status = 500
    /\ r.store = whole.store
    /\ \A a \in DOMAIN agents :
          IF ProcessedBeforeFailure(a, action_id, io)
          THEN r.agents[a] = whole.agents[a]
          ELSE r.agents[a] = agents[a]

C13_FailedCascadeIsPartial ==
    \A action_id \in ActionIdParams : \A io \in StoreRuns(agents) :
        /\ (Delete(action_id).status = 200 /\ FailsPartway(action_id, io)) =>
              /\ CutShort(DeleteAction(actionStore, agents, issued, parser,
                                       action_id, io),
                          Delete(action_id), action_id, io)
              /\ ~getAction(DeleteAction(actionStore, agents, issued, parser,
                                         action_id, io).store, action_id).present
        /\ \A body \in Bodies :
              (Update(action_id, body).status = 200 /\ FailsPartway(action_id, io)) =>
                  /\ CutShort(PutAction(actionStore, agents, issued, parser,
                                        action_id, body.functions, body.metadata, io),
                              Update(action_id, body), action_id, io)
                  /\ getAction(PutAction(actionStore, agents, issued, parser,
                                         action_id, body.functions, body.metadata,
                                         io).store, action_id).functions
                         = body.functions

\* two agents bind the action; an update that changes its functions and a
\* delete both fail at the second agent, after they have written the first
C13_Witness ==
    \E action_id \in ActionIdParams : \E io \in StoreRuns(agents) :
        \E body \in Bodies :
            LET u == PutAction(actionStore, agents, issued, parser, action_id,
                               body.functions, body.metadata, io)
                d == DeleteAction(actionStore, agents, issued, parser, action_id, io)
            IN  /\ Len(Binding(action_id, io)) = 2
                /\ Binding(action_id, io)[1] \notin io.failing
                /\ Binding(action_id, io)[2] \in io.failing
                /\ body.functions # getAction(actionStore, action_id).functions
                /\ u.status = 500 /\ u.writes = 2
                /\ u.agents[Binding(action_id, io)[1]]
                       # agents[Binding(action_id, io)[1]]
                /\ d.status = 500 /\ d.writes = 2

(***************************************************************************)
(* C14 -- the cascade can be retried wholesale: after an UpdateAction or   *)
(* DeleteAction whose cascade a failing write cut short, the same request  *)
(* served again with no failure leaves every agent that bound the action   *)
(* with the actionRefs and toolRefs that one run without failure would     *)
(* have given it.                                                          *)
(***************************************************************************)
\* every agent that bound the action has in `again` the references of `whole`
SameReferences(again, whole, action_id) ==
    \A a \in DOMAIN agents :
        RefsTo(agents[a], action_id) # {} =>
            /\ again.agents[a].actions = whole.agents[a].actions
            /\ again.agents[a].tools = whole.agents[a].tools

DeleteRetryConverges ==
    \A action_id \in ActionIdParams : \A io \in StoreRuns(agents) :
        LET cut == DeleteAction(actionStore, agents, issued, parser, action_id, io)
            again == DeleteAction(cut.store, cut.agents, cut.issued, parser,
                                  action_id, NoFault(agents))
        IN  (Delete(action_id).status = 200 /\ FailsPartway(action_id, io)) =>
                SameReferences(again, Delete(action_id), action_id)

UpdateRetryConverges ==
    \A action_id \in ActionIdParams : \A io \in StoreRuns(agents) :
        \A body \in Bodies :
            LET cut == PutAction(actionStore, agents, issued, parser, action_id,
                                 body.functions, body.metadata, io)
                again == PutAction(cut.store, cut.agents, cut.issued, parser,
                                   action_id, body.functions, body.metadata,
                                   NoFault(agents))
            IN  (Update(action_id, body).status = 200 /\ FailsPartway(action_id, io)) =>
                    SameReferences(again, Update(action_id, body), action_id)

C14_RetryConverges == DeleteRetryConverges /\ UpdateRetryConverges

(***************************************************************************)
(* C15 -- the delimiter never occurs inside a component of a written       *)
(* reference: a Bind, or an Update with agents to cascade to, that would   *)
(* encode a reference from a domain, an action id or a function name that  *)
(* contains the delimiter fails, and leaves every agent's references as    *)
(* they were.                                                              *)
(***************************************************************************)
HasDelimiter(s) == Includes(s, DELIM)

\* the delimiter occurs in a component of the references of the action
DelimiterInParts(domain, actionId, functions) ==
    \/ HasDelimiter(domain)
    \/ HasDelimiter(actionId)
    \/ \E k \in 1..Len(functions) : HasDelimiter(functions[k])

C15_DelimiterIsRejected ==
    /\ \A user \in Identities : \A agent_id \in AgentIdParams :
          \A action_id \in ActionIdParams :
              LET action == getAction(actionStore, action_id)
                  r == Bind(user, agent_id, action_id)
              IN  ( /\ CanModify(user, agent_id)
                    /\ action.present
                    /\ RefsTo(agents[agent_id], action_id) = {}
                    /\ DelimiterInParts(domainParser(parser, action.metadata.domain),
                                        action_id, action.functions) )
                  => r.status # 200 /\ r.agents = agents
    /\ \A action_id \in ActionIdParams : \A body \in DelimitedBodies :
          LET r == Update(action_id, body)
          IN  ( /\ getAction(actionStore, action_id).present
                /\ \E a \in DOMAIN agents : RefsTo(agents[a], action_id) # {}
                /\ DelimiterInParts(domainParser(parser, body.metadata.domain),
                                    action_id, body.functions) )
              => r.status # 200 /\ r.agents = agents

(***************************************************************************)
(* C16 -- round trip of the action reference: for a domain d and an action *)
(* id a that do not contain the delimiter, splitting d<DELIM>a at the      *)
(* delimiter gives back d and a; and the domain Unbind extracts from the   *)
(* reference that a Bind or an Update cascade has just written is the      *)
(* domain the reference was encoded with.                                  *)
(***************************************************************************)
\* domains and ids to encode: those of the requests, as each parser resolves
\* them, and an id that holds the delimiter
CodecDomains == {domainParser(mode, d) : mode \in ParserModes, d \in Domains}

CodecIds == ActionIdParams \cup {<<"k", "_", "1">>}

RemovedDomain(agent, actionId) ==
    RefDomain(agent.actions[CHOOSE i \in RefsTo(agent, actionId) : TRUE])

C17_UnbindRemovesExactly ==
    \A user \in Identities : \A agent_id \in AgentIdParams :
        \A action_id \in ActionIdParams :
            LET r == Unbind(user, agent_id, action_id)
                before == agents[agent_id]
            IN  r.status = 200 =>
                    /\ r.agents[agent_id].actions
                          = SelectSeq(before.actions,
                                      LAMBDA ref : ~Includes(ref, action_id))
                    /\ r.agents[agent_id].tools
                          = SelectSeq(before.tools,
                                      LAMBDA t : ToolDomain(t)
                                                   # RemovedDomain(before, action_id))
                    /\ \A b \in DOMAIN agents \ {agent_id} : r.agents[b] = agents[b]
                    /\ r.store = actionStore

(***************************************************************************)
(* C18 -- no operation changes an agent's actionRefs or toolRefs unless    *)
(* the acting identity is an admin or the agent's author: not Bind, not    *)
(* Unbind, and not the cascades of UpdateAction and DeleteAction.          *)
(***************************************************************************)
\* the references of the agent differ between the stores `r` leaves and now
ChangesReferences(r, a) ==
    \/ r.agents[a].actions # agents[a].actions
    \/ r.agents[a].tools # agents[a].tools

\* UpdateAction and DeleteAction requested by the identity: the two handlers
\* read req.user only to stamp the Action document (line 164), so that their
\* outcome is the same for every identity
UpdateBy(user, action_id, body) == Update(action_id, body)

DeleteBy(user, action_id) == Delete(action_id)

C18_OnlyAuthorOrAdminChangesReferences ==
    \A user \in Identities : \A a \in DOMAIN agents :
        \A action_id \in ActionIdParams :
            /\ \A agent_id \in AgentIdParams :
                  /\ ChangesReferences(Bind(user, agent_id, action_id), a)
                        => CanModify(user, a)
                  /\ ChangesReferences(Unbind(user, agent_id, action_id), a)
                        => CanModify(user, a)
            /\ \A body \in Bodies :
                  ChangesReferences(UpdateBy(user, action_id, body), a)
                      => CanModify(user, a)
            /\ ChangesReferences(DeleteBy(user, action_id), a)
                  => CanModify(user, a)

(***************************************************************************)
(* C19 -- toolRefs stays a set: from agents with no toolRefs and actions   *)
(* whose function names are distinct, whatever requests have been served,  *)
(* no agent's toolRefs holds the same tool reference twice.                *)
(***************************************************************************)
C19_ToolRefsIsASet ==
    \A a \in DOMAIN agents :
        \A i \in 1..Len(agents[a].tools) : \A j \in 1..Len(agents[a].tools) :
            i # j => agents[a].tools[i] # agents[a].tools[j]

(***************************************************************************)
(* C20 -- no dangling reference survives a delete under concurrency: when  *)
(* DeleteAction(X) and BindActionToAgent(A, X) are served concurrently,    *)
(* their store calls interleaved in any order, then once both are answered *)
(* and the delete has reported success, no agent has an actionRefs entry   *)
(* containing X, nor a toolRefs entry of X's domain that no action the     *)
(* agent still binds serves.                                               *)
(***************************************************************************)
\* both requests are answered, for the same action, the delete with success
RaceIsOver ==
    /\ inflight.bind.pc = "done"
    /\ inflight.del.pc = "done"
    /\ inflight.del.status = 200
    /\ inflight.bind.action_id = inflight.del.action_id

C20_NoDanglingReferenceAfterRace ==
    RaceIsOver =>
        \A a \in DOMAIN agents :
            /\ RefsTo(agents[a], inflight.del.action_id) = {}
            /\ \A t \in Range(agents[a].tools) :
                  ToolDomain(t) = domainParser(parser,
                                      inflight.del.deletedAction.metadata.domain)
                      => ServedBy(agents[a], t) # {}

====
